---------------------------- MODULE Spec2Model ----------------------------
(***************************************************************************)
(* A model of FloatingDictionaryLinux: the text classifier, the translate  *)
(* orchestration of translation.rs, and the capture -> OCR -> window       *)
(* pipeline of ocr.rs / main.rs with its result channel.                   *)
(*                                                                         *)
(* A string is a sequence of characters; a character is one of the tokens  *)
(* of Chars, each with its Unicode class and its UTF-8 width.              *)
(***************************************************************************)
EXTENDS Integers, Sequences, FiniteSets, TLC

(***************************************************************************)
(* State.                                                                  *)
(***************************************************************************)
\* The classifier under test.
VARIABLES
    clsText,      \* the string handed to is_single_word
    clsPc,        \* "input" | "classified"
    clsWord,      \* result of translation.rs is_single_word
    clsWordMain   \* result of main.rs is_single_word

clsVars == <<clsText, clsPc, clsWord, clsWordMain>>

\* One call of translation.rs translate_text.
VARIABLES
    text,                \* translate_text's text
    target,              \* translate_text's target
    trPc,                \* "start" | "await_google" | "await_longdo" | "returned"
    search_word,
    google_translation,
    detected_source_lang,
    googleReq,           \* the machine-translation request: "idle" | "in_flight" | "done"
    longdoReq,           \* the dictionary request: "idle" | "in_flight" | "done"
    googleResponse,      \* what the machine-translation endpoint answered
    longdoResponse,      \* what the dictionary endpoint answered
    requests,            \* the requests sent so far, in order
    silent,              \* the endpoints that accept a request and never reply
    trRet                \* translate_text's return value

trVars == <<text, target, trPc, search_word, google_translation,
            detected_source_lang, googleReq, longdoReq, googleResponse,
            longdoResponse, requests, silent, trRet>>

\* One run of main: capture, OCR, then the result window and its worker.
VARIABLES
    rev,              \* whose capture_and_ocr runs: "ocr_rs" | "main_rs"
    desktop,          \* XDG_CURRENT_DESKTOP
    pc,               \* where the main task is
    unique_name,      \* the D-Bus connection's unique name
    token,            \* the request's handle_token
    handle,           \* the object path capture_portal awaits the Response on
    portalState,      \* the desktop service: "idle" | "pending"
    portalPath,       \* the object path the service emits the Response on
    subscription,     \* the path of the client's open signal subscription
    signal_stream,    \* Response events delivered to the subscription
    emitted,          \* Response events the service has emitted
    consumed,         \* Response events taken from signal_stream
    response,         \* the Response event taken
    spectacle,        \* how the screenshot subprocess ended
    captureRequests,  \* Screenshot calls and subprocess launches issued
    image_path,       \* what the capture returned
    file,             \* the temporary screenshot file: "none" | "exists" | "absent"
    fileReads,        \* fs::read calls
    readOutcome,      \* "none" | "ok" | "err"
    removeAttempts,   \* fs::remove_file calls
    removeOutcome,    \* "none" | "ok" | "err"
    ocrCalls,         \* OCR engine invocations
    ret,              \* capture_and_ocr's return value
    ocr_text,         \* OcrApp.text
    translation,      \* OcrApp.translation
    is_translating,   \* OcrApp.is_translating
    has_gained_focus, \* OcrApp.has_gained_focus
    chan,             \* the mpsc channel (translation_tx -> translation_rx)
    workers,          \* the spawned translation threads
    netCalls,         \* network requests sent by the workers
    sends,            \* values sent on the channel
    recvs,            \* values update took from the channel
    lastPoll,         \* what the last frame's try_recv returned
    unresponsive      \* the endpoints that accept a worker's request and never reply

portalVars == <<unique_name, token, handle, portalState, portalPath,
                subscription, signal_stream, emitted, consumed, response>>

fileVars == <<file, fileReads, readOutcome, removeAttempts, removeOutcome>>

capVars == <<rev, desktop, pc, portalVars, spectacle, captureRequests,
             image_path, fileVars, ocrCalls, ret>>

uiVars == <<ocr_text, translation, is_translating, has_gained_focus, chan,
            workers, netCalls, sends, recvs, lastPoll, unresponsive>>

appVars == <<capVars, uiVars>>

\* One call of parse_definition, in its two revisions.
VARIABLES
    definition,   \* the string handed to parse_definition
    defPc,        \* "input" | "parsed"
    defRet,       \* what translation.rs parse_definition returned
    defRetMain    \* what main.rs parse_definition returned

defVars == <<definition, defPc, defRet, defRetMain>>

\* One call of parse_longdo_html, in its two revisions.
VARIABLES
    html,        \* the document: the sibling chain of the headings and tables
    htmlPc,      \* "input" | "parsed"
    data,        \* the LongdoData translation.rs parse_longdo_html built
    dataMain,    \* the LongdoResult main.rs parse_longdo_html built
    tableCalls   \* the calls of parse_translation_table translation.rs made

htmlVars == <<html, htmlPc, data, dataMain, tableCalls>>

parserVars == <<defVars, htmlVars>>

vars == <<clsVars, trVars, appVars, parserVars>>

(***************************************************************************)
(* Bounds of the model.                                                    *)
(***************************************************************************)
\* Longest string enumerated character by character.
MaxShort == 2
\* How far past the word limit the generated long strings go.
MaxOver == 2
\* Longest definition enumerated character by character.
MaxDefLen == 4
\* Longest sibling chain of headings and tables in a document.
MaxNodes == 4
\* Most rows of a table whose rows are enumerated shape by shape.
MaxRows == 2

(***************************************************************************)
(* Program constants.                                                      *)
(***************************************************************************)
\* `trimmed.len() < 50`
WordLimit == 50
\* `.timeout(std::time::Duration::from_secs(10))` on the dictionary request
LongdoTimeoutSecs == 10

(***************************************************************************)
(* Characters and strings.                                                 *)
(***************************************************************************)
\* "a": an ASCII letter, ".": ASCII punctuation, "TH": a Thai letter,
\* "SP": ' ', "TAB": '\t', "NL": '\n', "NBSP": U+00A0.
Chars == {"a", ".", "TH", "SP", "TAB", "NL", "NBSP"}

\* char::is_whitespace (the Unicode White_Space property).
is_whitespace(c) == c \in {"SP", "TAB", "NL", "NBSP"}

\* The UTF-8 encoded width of a character, in bytes.
Utf8Width(c) == IF c = "TH" THEN 3 ELSE IF c = "NBSP" THEN 2 ELSE 1

Rep(c, n) == [i \in 1..n |-> c]

\* str::trim_start / str::trim_end: strip while the end character is White_Space.
RECURSIVE trim_start(_)
trim_start(s) ==
    IF s # <<>> /\ is_whitespace(Head(s)) THEN trim_start(Tail(s)) ELSE s

RECURSIVE trim_end(_)
trim_end(s) ==
    IF s # <<>> /\ is_whitespace(s[Len(s)])
    THEN trim_end(SubSeq(s, 1, Len(s) - 1))
    ELSE s

\* str::trim
trim(s) == trim_end(trim_start(s))

\* A faulty variant of str_len: the number of characters, not of bytes.
chars_count(s) == Len(s)

\* str::len: the length in bytes of the UTF-8 encoding.
RECURSIVE Utf8Bytes(_)
Utf8Bytes(s) == IF s = <<>> THEN 0 ELSE Utf8Width(Head(s)) + Utf8Bytes(Tail(s))

str_len(s) == Utf8Bytes(s)

\* str::contains(char::is_whitespace)
contains_whitespace(s) == \E k \in 1..Len(s) : is_whitespace(s[k])

\* str::contains(c) for one character
contains_char(s, c) == \E k \in 1..Len(s) : s[k] = c

(***************************************************************************)
(* TextNormalizer: is_single_word, in its two revisions.                   *)
(***************************************************************************)
\* translation.rs
is_single_word(txt) ==
    LET trimmed == trim(txt)
    IN  ~contains_whitespace(trimmed) /\ str_len(trimmed) < WordLimit

\* main.rs
is_single_word_main(txt) ==
    LET trimmed == trim(txt)
    IN  /\ ~contains_char(trimmed, "SP")
        /\ ~contains_char(trimmed, "NL")
        /\ str_len(trimmed) < WordLimit

(***************************************************************************)
(* Inputs of the classifier: every string of at most MaxShort characters,  *)
(* and long strings around the limit, padded and with interior whitespace. *)
(***************************************************************************)
ShortStrings == UNION {[1..n -> Chars] : n \in 0..MaxShort}

Pads == {<<>>, <<"SP">>, <<"TAB">>, <<"NL", "SP">>}

Mids == {<<>>, <<"SP", "a">>, <<"TAB", "a">>}

LongStrings ==
    {pre \o Rep(c, n) \o mid \o post :
        pre \in Pads, post \in Pads, mid \in Mids,
        c \in {"a", "TH"}, n \in 1..(WordLimit + MaxOver)}

ClassifyInputs == ShortStrings \cup LongStrings

ClsInit ==
    /\ clsText \in ClassifyInputs
    /\ clsPc = "input"
    /\ clsWord = FALSE
    /\ clsWordMain = FALSE

ClsIdle ==
    /\ clsText = <<>>
    /\ clsPc = "idle"
    /\ clsWord = FALSE
    /\ clsWordMain = FALSE

Classify ==
    /\ clsPc = "input"
    /\ clsPc' = "classified"
    /\ clsWord' = is_single_word(clsText)
    /\ clsWordMain' = is_single_word_main(clsText)
    /\ UNCHANGED <<clsText, trVars, appVars, parserVars>>

(***************************************************************************)
(* Option / Result values and JSON documents (serde_json::Value).          *)
(***************************************************************************)
None == [some |-> FALSE]
NoResponse == [kind |-> "none"]
Pending == [kind |-> "pending"]
Some(x) == [some |-> TRUE, v |-> x]

\* t: the kind of value; str: the characters of a string; arr: the elements
\* of an array.
JNull == [t |-> "null", str |-> <<>>, arr |-> <<>>]
JStr(s) == [t |-> "str", str |-> s, arr |-> <<>>]
JArr(a) == [t |-> "arr", str |-> <<>>, arr |-> a]

\* Value::get(index): an element of an array, None for anything else.
json_get(j, index) ==
    IF j.t = "arr" /\ index < Len(j.arr) THEN Some(j.arr[index + 1]) ELSE None

\* Option<&Value>::and_then(|v| v.as_array()) and ...as_str()
and_then_as_array(o) == IF o.some /\ o.v.t = "arr" THEN Some(o.v.arr) ELSE None
and_then_as_str(o) == IF o.some /\ o.v.t = "str" THEN Some(o.v.str) ELSE None

\* Result::ok(): Ok(x) becomes Some(x), an error becomes None.
\* A faulty variant of result_ok: an error becomes the default (empty) value.
result_unwrap_or_default(r) ==
    IF r.kind = "Ok" THEN Some(r.v) ELSE Some([translations |-> <<>>, examples |-> <<>>])

result_ok(r) == IF r.kind = "Ok" THEN Some(r.v) ELSE None

\* str::to_uppercase on the letters of the language codes.
UpperChar(c) ==
    CASE c = "e" -> "E" [] c = "n" -> "N" [] c = "t" -> "T" [] c = "h" -> "H"
      [] c = "f" -> "F" [] c = "r" -> "R" [] c = "a" -> "A"
      [] OTHER -> c

to_uppercase(s) == [i \in 1..Len(s) |-> UpperChar(s[i])]

(***************************************************************************)
(* TranslationOrchestrator: translation.rs translate_text and its two      *)
(* fetchers.                                                               *)
(***************************************************************************)
\* Longest array of translated segments in a machine-translation response.
MaxSegments == 2

LangEn == <<"e", "n">>
LangTh == <<"t", "h">>
LangFr == <<"f", "r">>
SourceAuto == <<"a", "u", "t", "o">>

\* The items of element [0]: a segment [text, ...], [null, ...], or null.
SegmentItems == {JArr(<<JStr(<<"TH">>)>>), JArr(<<JNull>>), JNull}

Element0s ==
    {JNull, JStr(<<"a">>)}
        \cup {JArr(a) : a \in UNION {[1..n -> SegmentItems] : n \in 0..MaxSegments}}

Element2s == {JStr(LangEn), JStr(LangTh), JStr(LangFr), JNull}

\* What the machine-translation endpoint can answer: no connection, a body
\* that is not JSON, or a JSON document.
GoogleResponses ==
    {[kind |-> "conn_err"], [kind |-> "bad_json"], [kind |-> "json", json |-> JNull]}
        \cup {[kind |-> "json", json |-> JArr(<<e0>>)] : e0 \in Element0s}
        \cup {[kind |-> "json", json |-> JArr(<<e0, JNull, e2>>)] :
                e0 \in Element0s, e2 \in Element2s}

\* What parse_longdo_html can make of a page: the HTML is third-party
\* content, so any LongdoData.
LongdoDatas ==
    {[translations |-> <<>>, examples |-> <<>>],
     [translations |-> <<"item">>, examples |-> <<>>],
     [translations |-> <<"item">>, examples |-> <<"example">>]}

\* What the dictionary endpoint can answer.
LongdoResponses ==
    {[kind |-> "conn_err"], [kind |-> "timeout"], [kind |-> "body_err"]}
        \cup {[kind |-> "html", data |-> d] : d \in LongdoDatas}

TranslateTexts ==
    {<<"a">>, <<"SP", "a", "NL">>, <<"a", "SP", "a">>, <<"a", "TAB", "a">>,
     <<".", "a", ".">>, Rep("a", WordLimit - 1), Rep("a", WordLimit),
     <<"TH", "TH">>}

Targets == {LangTh, LangEn}

\* for item in translations { if let Some(text_part) = item.get(0).as_str() .. }
RECURSIVE concat_segments(_)
concat_segments(items) ==
    IF items = <<>> THEN <<>>
    ELSE LET text_part == and_then_as_str(json_get(Head(items), 0))
         IN  (IF text_part.some THEN text_part.v ELSE <<>>)
                \o concat_segments(Tail(items))

\* google_translate_with_source_detection, from the response on.
google_translate_with_source_detection(resp) ==
    IF resp.kind \in {"conn_err", "timeout"} THEN [kind |-> "Err", msg |-> "send"]
    ELSE IF resp.kind = "bad_json" THEN [kind |-> "Err", msg |-> "json"]
    ELSE LET translations == and_then_as_array(json_get(resp.json, 0))
             detected_lang == and_then_as_str(json_get(resp.json, 2))
         IN  IF ~translations.some
             THEN [kind |-> "Err", msg |-> "Failed to parse Google Translate translation"]
             ELSE IF ~detected_lang.some
             THEN [kind |-> "Err",
                   msg |-> "Failed to parse detected source language from Google"]
             ELSE [kind |-> "Ok", translation |-> concat_segments(translations.v),
                   detected_lang |-> detected_lang.v]

\* fetch_longdo_translation, from the response on.
fetch_longdo_translation(resp) ==
    IF resp.kind = "html" THEN [kind |-> "Ok", v |-> resp.data]
    ELSE [kind |-> "Err", msg |-> resp.kind]

\* A faulty variant of longdo_gate: the target is not looked at.
longdo_gate_any_target(word, detected, tgt) ==
    is_single_word(word) /\ detected = LangEn

\* if is_single_word(&search_word) && detected_source_lang == "en" && target == "th"
longdo_gate(word, detected, tgt) ==
    is_single_word(word) /\ detected = LangEn /\ tgt = LangTh

CombinedTranslationData(word, detected, tgt, google, longdo) ==
    [search_word |-> word,
     source_lang |-> to_uppercase(detected),
     target_lang |-> to_uppercase(tgt),
     google_translation |-> google,
     longdo_data |-> longdo]

TrInit ==
    /\ text \in TranslateTexts
    /\ target \in Targets
    /\ trPc = "start"
    /\ search_word = <<>>
    /\ google_translation = <<>>
    /\ detected_source_lang = <<>>
    /\ googleReq = "idle"
    /\ longdoReq = "idle"
    /\ googleResponse = NoResponse
    /\ longdoResponse = NoResponse
    /\ requests = <<>>
    /\ silent \in SUBSET {"google", "longdo"}
    /\ trRet = Pending

\* client.get(&url): no timeout is set on the machine-translation request.
GoogleRequest(q, tl, sl) ==
    [to |-> "google", sl |-> sl, tl |-> tl, q |-> q, search |-> <<>>,
     timeout |-> None]

\* client.get(&url).header(..).timeout(Duration::from_secs(10))
LongdoRequest(word) ==
    [to |-> "longdo", sl |-> <<>>, tl |-> <<>>, q |-> <<>>, search |-> word,
     timeout |-> Some(LongdoTimeoutSecs)]

\* How send().await can end for request req: an endpoint that replies gives
\* one of answers; one that never replies leaves only the request's own
\* timer, if it has one.
SendOutcomes(req, answers) ==
    IF req.to \notin silent THEN answers
    ELSE IF req.timeout.some THEN {[kind |-> "timeout"]}
    ELSE {}

\* The request of the given endpoint that was sent last.
LastRequest(to) ==
    LET ks == {k \in 1..Len(requests) : requests[k].to = to}
    IN  requests[CHOOSE k \in ks : \A m \in ks : m <= k]

\* A faulty variant of TranslateStart: the revision that sends both requests at once.
TranslateStartConcurrent ==
    /\ trPc = "start"
    /\ search_word' = trim(text)
    /\ requests' = requests \o <<GoogleRequest(search_word', target, SourceAuto),
                                 LongdoRequest(search_word')>>
    /\ googleReq' = "in_flight"
    /\ longdoReq' = "in_flight"
    /\ trPc' = "await_google"
    /\ UNCHANGED <<text, target, google_translation, detected_source_lang,
                   googleResponse, longdoResponse, silent, trRet, clsVars,
                   appVars, parserVars>>

\* translate_text up to the first await: trim, send the machine-translation
\* request.
TranslateStart ==
    /\ trPc = "start"
    /\ search_word' = trim(text)
    /\ requests' = Append(requests, GoogleRequest(search_word', target, SourceAuto))
    /\ googleReq' = "in_flight"
    /\ trPc' = "await_google"
    /\ UNCHANGED <<text, target, google_translation, detected_source_lang,
                   longdoReq, googleResponse, longdoResponse, silent, trRet,
                   clsVars, appVars, parserVars>>

\* The machine-translation call completes: `?` returns its error; otherwise
\* the gate decides whether the dictionary request is sent.
GoogleReply ==
    /\ trPc = "await_google"
    /\ googleReq = "in_flight"
    /\ \E resp \in SendOutcomes(LastRequest("google"), GoogleResponses) :
        LET r == google_translate_with_source_detection(resp)
        IN  /\ googleResponse' = resp
            /\ googleReq' = "done"
            /\ IF r.kind = "Err"
               THEN /\ trRet' = r
                    /\ trPc' = "returned"
                    /\ UNCHANGED <<google_translation, detected_source_lang,
                                   longdoReq, requests>>
               ELSE /\ google_translation' = r.translation
                    /\ detected_source_lang' = r.detected_lang
                    /\ IF longdo_gate(search_word, r.detected_lang, target)
                       THEN /\ requests' = Append(requests, LongdoRequest(search_word))
                            /\ longdoReq' = "in_flight"
                            /\ trPc' = "await_longdo"
                            /\ UNCHANGED trRet
                       ELSE /\ trRet' = [kind |-> "Ok",
                                         v |-> CombinedTranslationData(
                                                 search_word, r.detected_lang,
                                                 target, r.translation, None)]
                            /\ trPc' = "returned"
                            /\ UNCHANGED <<longdoReq, requests>>
    /\ UNCHANGED <<text, target, search_word, longdoResponse, silent, clsVars,
                   appVars, parserVars>>

\* The dictionary call completes: .ok() turns its error into None.
LongdoReply ==
    /\ trPc = "await_longdo"
    /\ longdoReq = "in_flight"
    /\ \E resp \in SendOutcomes(LastRequest("longdo"), LongdoResponses) :
        /\ longdoResponse' = resp
        /\ longdoReq' = "done"
        /\ trRet' = [kind |-> "Ok",
                     v |-> CombinedTranslationData(
                             search_word, detected_source_lang, target,
                             google_translation,
                             result_ok(fetch_longdo_translation(resp)))]
        /\ trPc' = "returned"
    /\ UNCHANGED <<text, target, search_word, google_translation,
                   detected_source_lang, googleReq, googleResponse, requests,
                   silent, clsVars, appVars, parserVars>>

TrIdle ==
    /\ text = <<>>
    /\ target = <<>>
    /\ trPc = "idle"
    /\ search_word = <<>>
    /\ google_translation = <<>>
    /\ detected_source_lang = <<>>
    /\ googleReq = "idle"
    /\ longdoReq = "idle"
    /\ googleResponse = NoResponse
    /\ longdoResponse = NoResponse
    /\ requests = <<>>
    /\ silent = {}
    /\ trRet = Pending

(***************************************************************************)
(* CaptureTransport: ocr.rs capture_kde / capture_portal and the inlined   *)
(* portal capture of main.rs capture_and_ocr.                              *)
(***************************************************************************)
\* Response events the desktop service may emit for one request.
MaxResponses == 2

Err(m) == [kind |-> "Err", msg |-> m]
Ok(x) == [kind |-> "Ok", v |-> x]
Panic(m) == [kind |-> "Panic", msg |-> m]

Desktops == {"KDE", "kde", "GNOME", ""}

\* de.to_uppercase().contains("KDE")
is_kde(de) == de \in {"KDE", "kde"}

UniqueNames == {<<":", "1", ".", "7">>, <<":", "1", ".", "1", "0">>}

Tokens == {<<"a", "0">>, <<"d", "9">>}

RECURSIVE trim_start_matches(_, _)
trim_start_matches(s, c) ==
    IF s # <<>> /\ Head(s) = c THEN trim_start_matches(Tail(s), c) ELSE s

\* str::replace(from, to) for single characters
replace_char(s, from, to) == [i \in 1..Len(s) |-> IF s[i] = from THEN to ELSE s[i]]

\* A faulty variant of sanitize_sender: the dots are left in.
sanitize_sender_keep_dots(name) == trim_start_matches(name, ":")

\* connection.unique_name().trim_start_matches(':').replace('.', "_")
sanitize_sender(name) == replace_char(trim_start_matches(name, ":"), ".", "_")

\* format!("/org/freedesktop/portal/desktop/request/{sender}/{token}")
handle_path(sndr, tok) == [sender |-> sndr, token |-> tok]

NoHandle == [sender |-> <<>>, token |-> <<>>]

\* The options passed with the Screenshot call.
screenshot_options(tok) == [handle_token |-> tok, interactive |-> TRUE]

\* The Request path the desktop service derives from the caller's unique
\* name and the handle_token option it was given.
PortalRequestPath(name, options) ==
    [sender |-> replace_char(IF name # <<>> /\ Head(name) = ":" THEN Tail(name) ELSE name,
                             ".", "_"),
     token |-> options.handle_token]

\* Variant values of the results map.
VStr(str) == [t |-> "str", str |-> str]
VU32 == [t |-> "u32", str |-> <<>>]

Uris ==
    {<<"file://", "/", "p">>, <<"file://", "/", "%20">>, <<"file://", "/", "%FF">>,
     <<"http://", "/", "p">>}

\* The results map: a set of <<key, value>> pairs.
ResultMaps == {{}, {<<"uri", VU32>>}} \cup {{<<"uri", VStr(u)>>} : u \in Uris}

\* The body of a Response signal: one that does not decode as (u32, a{sv}),
\* or a status code with a results map.
ResponseBodies ==
    {[malformed |-> TRUE, code |-> 0, results |-> {}]}
        \cup {[malformed |-> FALSE, code |-> c, results |-> m] :
                c \in {0, 1, 2}, m \in ResultMaps}

NoBody == [malformed |-> FALSE, code |-> 0, results |-> {<<"none", VU32>>}]

\* HashMap::get
map_get(m, key) ==
    IF \E kv \in m : kv[1] = key
    THEN Some((CHOOSE kv \in m : kv[1] = key)[2])
    ELSE None

\* str::strip_prefix, the prefix being one token of the string
strip_prefix(s, prefix) == IF s # <<>> /\ Head(s) = prefix THEN Some(Tail(s)) ELSE None

\* urlencoding::decode: "%20" is a space, "%FF" is not UTF-8.
urlencoding_decode(s) ==
    IF \E k \in 1..Len(s) : s[k] = "%FF" THEN Err("FromUtf8Error")
    ELSE Ok([i \in 1..Len(s) |-> IF s[i] = "%20" THEN "SP" ELSE s[i]])

\* A faulty variant of capture_portal_result: the status code is not looked at.
capture_portal_result_any_status(body) ==
    IF body.malformed THEN Err("deserialize")
    ELSE LET uri_value == map_get(body.results, "uri")
         IN  IF ~uri_value.some THEN Err("Portal response did not contain a URI.")
             ELSE IF uri_value.v.t # "str" THEN Err("downcast_ref")
             ELSE LET path_str == strip_prefix(uri_value.v.str, "file://")
                  IN  IF ~path_str.some THEN Err("URI was not a file URI.")
                      ELSE urlencoding_decode(path_str.v)

\* ocr.rs capture_portal, from the Response event on.
capture_portal_result(body) ==
    IF body.malformed THEN Err("deserialize")
    ELSE IF body.code # 0 THEN Err("Portal request failed or was cancelled by user.")
    ELSE LET uri_value == map_get(body.results, "uri")
         IN  IF ~uri_value.some THEN Err("Portal response did not contain a URI.")
             ELSE IF uri_value.v.t # "str" THEN Err("downcast_ref")
             ELSE LET path_str == strip_prefix(uri_value.v.str, "file://")
                  IN  IF ~path_str.some THEN Err("URI was not a file URI.")
                      ELSE urlencoding_decode(path_str.v)

\* main.rs capture_and_ocr, from the Response event on: the same steps with
\* unwrap() in place of ok_or(..)?.
capture_portal_result_main(body) ==
    IF body.malformed THEN Err("deserialize")
    ELSE IF body.code # 0 THEN Err("Portal request failed")
    ELSE LET uri_value == map_get(body.results, "uri")
         IN  IF ~uri_value.some THEN Panic("results.get(\"uri\").unwrap()")
             ELSE IF uri_value.v.t # "str" THEN Panic("downcast_ref::<Str>().unwrap()")
             ELSE LET path_str == strip_prefix(uri_value.v.str, "file://")
                  IN  IF ~path_str.some THEN Panic("strip_prefix(\"file://\").unwrap()")
                      ELSE urlencoding_decode(path_str.v)

\* signal_stream.next().await yielding None
stream_end_result(r) ==
    IF r = "ocr_rs" THEN Err("Portal did not send a response.")
    ELSE Panic("signal_stream.next().await.unwrap()")

SpectacleOutcomes ==
    {[spawned |-> FALSE, code |-> 0]} \cup {[spawned |-> TRUE, code |-> c] : c \in {0, 1}}

NotRun == [spawned |-> FALSE, code |-> 1]

TempPath == <<"/tmp/", "capture_", ".png">>

\* A faulty variant of capture_kde_result: the exit status is not looked at.
capture_kde_result_any_status(out) ==
    IF ~out.spawned THEN Err("spawn") ELSE Ok(TempPath)

\* ocr.rs capture_kde, from the subprocess's end on.
capture_kde_result(out) ==
    IF ~out.spawned THEN Err("spawn")
    ELSE IF out.code # 0 THEN Err("Screenshot cancelled by user.")
    ELSE Ok(TempPath)

(***************************************************************************)
(* The pipeline: capture_and_ocr (ocr.rs, main.rs) and main.               *)
(***************************************************************************)
OcrTexts == {<<"a">>, <<"a", "SP", "a">>}

\* What the OCR engine can do with the image.
OcrOutcomes ==
    {Err("Tesseract::new"), Err("set_image_from_mem"), Err("get_text")}
        \cup {Ok(t) : t \in OcrTexts}

\* The locals of the portal capture, and the service's side of the request.
portalLocals == <<unique_name, token, handle, portalState, portalPath,
                  subscription, signal_stream>>

portalHistory == <<emitted, consumed, response>>

envVars == <<rev, desktop, clsVars, trVars, parserVars>>

\* The connection and everything built on it go out of scope.
DropPortalLocals ==
    /\ unique_name' = <<>>
    /\ token' = <<>>
    /\ handle' = NoHandle
    /\ portalState' = "idle"
    /\ portalPath' = NoHandle
    /\ subscription' = NoHandle
    /\ signal_stream' = <<>>

\* capture_and_ocr ends with r: `?` and Ok(..) return it, unwrap() panics.
Finish(r) ==
    IF r.kind = "Panic"
    THEN pc' = "panicked" /\ UNCHANGED <<ret, portalLocals>>
    ELSE pc' = "returned" /\ ret' = r /\ DropPortalLocals

\* A successful capture hands over a path; the file is normally there.
CaptureReturns(path) ==
    /\ image_path' = Some(path)
    /\ file' \in {"exists", "absent"}
    /\ pc' = "read"
    /\ UNCHANGED ret

\* ocr.rs: KDE desktop, capture_kde up to the subprocess launch.
StartKde ==
    /\ pc = "start"
    /\ rev = "ocr_rs"
    /\ is_kde(desktop)
    /\ \E path_is_utf8 \in BOOLEAN :
        IF path_is_utf8
        THEN /\ pc' = "spectacle"
             /\ captureRequests' = captureRequests + 1
             /\ UNCHANGED <<ret, portalLocals>>
        ELSE /\ Finish(Err("Failed to create a temporary file path."))
             /\ UNCHANGED captureRequests
    /\ UNCHANGED <<envVars, portalHistory, spectacle, image_path, fileVars,
                   ocrCalls, uiVars>>

\* The screenshot subprocess ends.
SpectacleDone ==
    /\ pc = "spectacle"
    /\ \E out \in SpectacleOutcomes :
        LET r == capture_kde_result(out)
        IN  /\ spectacle' = out
            /\ IF r.kind = "Ok"
               THEN CaptureReturns(r.v) /\ UNCHANGED portalLocals
               ELSE Finish(r) /\ UNCHANGED <<image_path, file>>
    /\ UNCHANGED <<envVars, portalHistory, captureRequests, fileReads,
                   readOutcome, removeAttempts, removeOutcome, ocrCalls, uiVars>>

\* The portal path up to the Screenshot call: the session connection, the
\* token, the handle path, the options, the portal proxy.
StartPortal ==
    /\ pc = "start"
    /\ (rev = "main_rs" \/ ~is_kde(desktop))
    /\ \E step \in {"ok", "Connection::session", "Proxy::new"} :
        IF step = "ok"
        THEN \E name \in UniqueNames, tok \in Tokens :
                /\ unique_name' = name
                /\ token' = tok
                /\ handle' = handle_path(sanitize_sender(name), tok)
                /\ pc' = "call"
                /\ UNCHANGED <<ret, portalState, portalPath, subscription,
                               signal_stream>>
        ELSE Finish(Err(step))
    /\ UNCHANGED <<envVars, portalHistory, spectacle, captureRequests,
                   image_path, fileVars, ocrCalls, uiVars>>

\* proxy.call_method("Screenshot", &("", options)): the call is sent.
CallScreenshot ==
    /\ pc = "call"
    /\ captureRequests' = captureRequests + 1
    /\ \E sent \in BOOLEAN :
        IF sent
        THEN /\ portalState' = "pending"
             /\ portalPath' = PortalRequestPath(unique_name, screenshot_options(token))
             /\ pc' = "await_ack"
             /\ UNCHANGED <<ret, unique_name, token, handle, subscription,
                            signal_stream>>
        ELSE Finish(Err("call_method"))
    /\ UNCHANGED <<envVars, portalHistory, spectacle, image_path, fileVars,
                   ocrCalls, uiVars>>

\* The call's reply arrives: it only acknowledges the request.
ScreenshotAck ==
    /\ pc = "await_ack"
    /\ \E acked \in BOOLEAN :
        IF acked
        THEN pc' = "subscribe" /\ UNCHANGED <<ret, portalLocals>>
        ELSE Finish(Err("call_method reply"))
    /\ UNCHANGED <<envVars, portalHistory, spectacle, captureRequests,
                   image_path, fileVars, ocrCalls, uiVars>>

\* The Request proxy and receive_signal("Response"): the subscription opens.
Subscribe ==
    /\ pc = "subscribe"
    /\ \E opened \in BOOLEAN :
        IF opened
        THEN /\ subscription' = handle
             /\ pc' = "await_signal"
             /\ UNCHANGED <<ret, unique_name, token, handle, portalState,
                            portalPath, signal_stream>>
        ELSE Finish(Err("receive_signal"))
    /\ UNCHANGED <<envVars, portalHistory, spectacle, captureRequests,
                   image_path, fileVars, ocrCalls, uiVars>>

\* The desktop service emits a Response on the request's path; it reaches
\* the client only through a subscription open on that path.
PortalEmit ==
    /\ portalState = "pending"
    /\ pc \in {"await_ack", "subscribe", "await_signal"}
    /\ emitted < MaxResponses
    /\ emitted' = emitted + 1
    /\ \E body \in ResponseBodies :
        signal_stream' = IF subscription = portalPath
                         THEN Append(signal_stream, body)
                         ELSE signal_stream
    /\ UNCHANGED <<envVars, pc, unique_name, token, handle, portalState,
                   portalPath, subscription, consumed, response, spectacle,
                   captureRequests, image_path, fileVars, ocrCalls, ret, uiVars>>

\* signal_stream.next() yields None: the connection was closed.
StreamEnds ==
    /\ pc = "await_signal"
    /\ signal_stream = <<>>
    /\ Finish(stream_end_result(rev))
    /\ UNCHANGED <<envVars, portalHistory, spectacle, captureRequests,
                   image_path, fileVars, ocrCalls, uiVars>>

\* signal_stream.next() yields a Response: decode it and return the path.
TakeResponse ==
    /\ pc = "await_signal"
    /\ signal_stream # <<>>
    /\ LET body == Head(signal_stream)
           r == IF rev = "ocr_rs" THEN capture_portal_result(body)
                ELSE capture_portal_result_main(body)
       IN  /\ consumed' = consumed + 1
           /\ response' = body
           /\ IF r.kind = "Ok"
              THEN /\ CaptureReturns(r.v)
                   /\ IF rev = "ocr_rs"
                      THEN DropPortalLocals
                      ELSE /\ signal_stream' = Tail(signal_stream)
                           /\ UNCHANGED <<unique_name, token, handle,
                                          portalState, portalPath, subscription>>
              ELSE Finish(r) /\ UNCHANGED <<image_path, file>>
    /\ UNCHANGED <<envVars, emitted, spectacle, captureRequests, fileReads,
                   readOutcome, removeAttempts, removeOutcome, ocrCalls, uiVars>>

\* A faulty variant of ReadImage: the file is not removed before OCR.
ReadImageKeepFile ==
    /\ pc = "read"
    /\ fileReads' = fileReads + 1
    /\ \E ok \in (IF file = "exists" THEN BOOLEAN ELSE {FALSE}) :
        IF ok
        THEN /\ readOutcome' = "ok"
             /\ pc' = "ocr"
             /\ UNCHANGED <<ret, portalLocals>>
        ELSE /\ readOutcome' = "err"
             /\ Finish(Err("fs::read"))
    /\ UNCHANGED <<envVars, portalHistory, spectacle, captureRequests,
                   image_path, file, removeAttempts, removeOutcome, ocrCalls,
                   uiVars>>

\* let image_data = fs::read(&image_path)?;
ReadImage ==
    /\ pc = "read"
    /\ fileReads' = fileReads + 1
    /\ \E ok \in (IF file = "exists" THEN BOOLEAN ELSE {FALSE}) :
        IF ok
        THEN /\ readOutcome' = "ok"
             /\ pc' = "remove"
             /\ UNCHANGED <<ret, portalLocals>>
        ELSE /\ readOutcome' = "err"
             /\ Finish(Err("fs::read"))
    /\ UNCHANGED <<envVars, portalHistory, spectacle, captureRequests,
                   image_path, file, removeAttempts, removeOutcome, ocrCalls,
                   uiVars>>

\* ocr.rs: let _ = fs::remove_file(..);   main.rs: fs::remove_file(..)?;
RemoveFile ==
    /\ pc = "remove"
    /\ removeAttempts' = removeAttempts + 1
    /\ \E ok \in BOOLEAN :
        /\ removeOutcome' = IF ok THEN "ok" ELSE "err"
        /\ file' = IF ok THEN "absent" ELSE file
        /\ IF ok \/ rev = "ocr_rs"
           THEN pc' = "ocr" /\ UNCHANGED <<ret, portalLocals>>
           ELSE Finish(Err("fs::remove_file"))
    /\ UNCHANGED <<envVars, portalHistory, spectacle, captureRequests,
                   image_path, fileReads, readOutcome, ocrCalls, uiVars>>

\* Tesseract::new(..)?.set_image_from_mem(..)?.get_text()?
RunOcr ==
    /\ pc = "ocr"
    /\ ocrCalls' = ocrCalls + 1
    /\ \E r \in OcrOutcomes : Finish(r)
    /\ UNCHANGED <<envVars, portalHistory, spectacle, captureRequests,
                   image_path, fileVars, uiVars>>

(***************************************************************************)
(* main.rs: main, OcrApp::update, the translation thread, the channel.     *)
(***************************************************************************)
\* Translation threads the model lets run at once.
MaxWorkers == 2

\* What the worker's network call can end with.
FetchOutcomes == {"ok", "err"}

\* Seconds given to .timeout(..) of main.rs fetch_longdo_translation.
LongdoTimeoutSecsMain == 5

\* main.rs: fetch_longdo_translation sets a timeout on its request,
\* google_translate sets none (and reqwest::Client::new() has no default).
request_timeout_main(to) ==
    IF to = "longdo" THEN Some(LongdoTimeoutSecsMain) ELSE None

\* How a worker's request to an endpoint can end: an endpoint that never
\* replies ends it only through the request's timeout, as an error.
fetch_outcomes(to) ==
    IF to \notin unresponsive THEN FetchOutcomes
    ELSE IF request_timeout_main(to).some THEN {"err"}
    ELSE {}

\* main.rs translate_text: the endpoint it asks, and the String it returns.
translate_text_endpoint(txt) ==
    IF is_single_word_main(trim(txt)) THEN "longdo" ELSE "google"

translate_text_main(outcome) ==
    IF outcome = "ok" THEN "translation" ELSE "Translation error: .."

\* A faulty variant of can_translate: the button stays while a translation runs.
can_translate_while_busy(translating, tr) == ~tr.some

\* if !self.is_translating && self.translation.is_none()
can_translate(translating, tr) == ~translating /\ ~tr.some

\* capture_and_ocr().await?  then the channel and eframe::run_native(..)?
MainAfterCapture ==
    /\ pc = "returned"
    /\ IF ret.kind = "Err"
       THEN pc' = "exit_err" /\ UNCHANGED ocr_text
       ELSE \E window_ok \in BOOLEAN :
               IF window_ok
               THEN pc' = "ui" /\ ocr_text' = ret.v
               ELSE pc' = "exit_err" /\ UNCHANGED ocr_text
    /\ UNCHANGED <<envVars, portalVars, spectacle, captureRequests, image_path,
                   fileVars, ocrCalls, ret, translation, is_translating,
                   has_gained_focus, chan, workers, netCalls, sends, recvs,
                   lastPoll, unresponsive>>

\* OcrApp::update, one frame: try_recv, focus handling, the Translate button.
UpdateFrame ==
    /\ pc = "ui"
    /\ \E clicked \in BOOLEAN, is_focused \in BOOLEAN :
        LET got == chan # <<>>
            translation1 == IF got THEN Some(Head(chan)) ELSE translation
            translating1 == IF got THEN FALSE ELSE is_translating
            gained1 == has_gained_focus \/ is_focused
            close == gained1 /\ ~is_focused
            start == /\ can_translate(translating1, translation1)
                     /\ clicked
                     /\ Len(workers) < MaxWorkers
        IN  /\ chan' = IF got THEN Tail(chan) ELSE chan
            /\ recvs' = IF got THEN recvs + 1 ELSE recvs
            /\ lastPoll' = IF got THEN "value" ELSE "empty"
            /\ translation' = translation1
            /\ is_translating' = (translating1 \/ start)
            /\ has_gained_focus' = gained1
            /\ workers' = IF start
                          THEN Append(workers, [pc |-> "spawned", text |-> ocr_text])
                          ELSE workers
            /\ pc' = IF close THEN "exit_ok" ELSE "ui"
    /\ UNCHANGED <<envVars, portalVars, spectacle, captureRequests, image_path,
                   fileVars, ocrCalls, ret, ocr_text, netCalls, sends,
                   unresponsive>>

\* The thread runs translate_text up to its network request.
WorkerRequest ==
    /\ pc = "ui"
    /\ \E i \in 1..Len(workers) :
        /\ workers[i].pc = "spawned"
        /\ LET to == translate_text_endpoint(workers[i].text)
           IN  netCalls' = Append(netCalls, [to |-> to,
                                             q |-> trim(workers[i].text),
                                             timeout |-> request_timeout_main(to)])
        /\ workers' = [workers EXCEPT ![i].pc = "requesting"]
    /\ UNCHANGED <<envVars, capVars, ocr_text, translation, is_translating,
                   has_gained_focus, chan, sends, recvs, lastPoll, unresponsive>>

\* translate_text returns its String and the thread sends it.
WorkerFinish ==
    /\ pc = "ui"
    /\ \E i \in 1..Len(workers) :
        /\ workers[i].pc = "requesting"
        /\ \E outcome \in fetch_outcomes(translate_text_endpoint(workers[i].text)) :
            chan' = Append(chan, translate_text_main(outcome))
        /\ sends' = sends + 1
        /\ workers' = [workers EXCEPT ![i].pc = "done"]
    /\ UNCHANGED <<envVars, capVars, ocr_text, translation, is_translating,
                   has_gained_focus, netCalls, recvs, lastPoll, unresponsive>>

UiInit ==
    /\ ocr_text = <<>>
    /\ translation = None
    /\ is_translating = FALSE
    /\ has_gained_focus = FALSE
    /\ chan = <<>>
    /\ workers = <<>>
    /\ netCalls = <<>>
    /\ sends = 0
    /\ recvs = 0
    /\ lastPoll = "none"

CapStart ==
    /\ unique_name = <<>>
    /\ token = <<>>
    /\ handle = NoHandle
    /\ portalState = "idle"
    /\ portalPath = NoHandle
    /\ subscription = NoHandle
    /\ signal_stream = <<>>
    /\ emitted = 0
    /\ consumed = 0
    /\ response = NoBody
    /\ spectacle = NotRun
    /\ captureRequests = 0
    /\ image_path = None
    /\ file = "none"
    /\ fileReads = 0
    /\ readOutcome = "none"
    /\ removeAttempts = 0
    /\ removeOutcome = "none"
    /\ ocrCalls = 0
    /\ ret = Pending

AppInit ==
    /\ rev \in {"ocr_rs", "main_rs"}
    /\ desktop \in Desktops
    /\ pc = "start"
    /\ CapStart
    /\ UiInit
    /\ unresponsive \in SUBSET {"google", "longdo"}

AppIdle ==
    /\ rev = "none"
    /\ desktop = ""
    /\ pc = "idle"
    /\ CapStart
    /\ UiInit
    /\ unresponsive = {}

(***************************************************************************)
(* DictionaryHtmlParser: parse_definition, in its two revisions.           *)
(***************************************************************************)
\* The case folding of (?i), on the ASCII letters.
fold(c) ==
    LET upper == <<"A", "B", "C", "D", "E", "F", "G", "H", "I", "J", "K", "L", "M",
                   "N", "O", "P", "Q", "R", "S", "T", "U", "V", "W", "X", "Y", "Z">>
        lower == <<"a", "b", "c", "d", "e", "f", "g", "h", "i", "j", "k", "l", "m",
                   "n", "o", "p", "q", "r", "s", "t", "u", "v", "w", "x", "y", "z">>
    IN  IF \E i \in 1..Len(upper) : upper[i] = c
        THEN lower[CHOOSE i \in 1..Len(upper) : upper[i] = c]
        ELSE c

\* str::starts_with, and the same under (?i)
starts_with(s, p) == Len(s) >= Len(p) /\ SubSeq(s, 1, Len(p)) = p

starts_with_i(s, p) ==
    Len(s) >= Len(p) /\ \A k \in 1..Len(p) : fold(s[k]) = fold(p[k])

drop(s, n) == SubSeq(s, n + 1, Len(s))

\* `(.*)`: the longest run of characters other than '\n'.
RECURSIVE dot_star(_)
dot_star(s) ==
    IF s = <<>> \/ Head(s) = "NL" THEN <<>> ELSE <<Head(s)>> \o dot_star(Tail(s))

\* The position of the first c in s, 0 when there is none.
find_char(s, c) ==
    IF \E k \in 1..Len(s) : s[k] = c
    THEN CHOOSE k \in 1..Len(s) : s[k] = c /\ \A m \in 1..(k - 1) : s[m] # c
    ELSE 0

\* str::trim_end_matches(c)
RECURSIVE trim_end_matches(_, _)
trim_end_matches(s, c) ==
    IF s # <<>> /\ s[Len(s)] = c
    THEN trim_end_matches(SubSeq(s, 1, Len(s) - 1), c)
    ELSE s

\* str::replace(from, to): every non-overlapping occurrence, left to right.
RECURSIVE replace_str(_, _, _)
replace_str(s, from, to) ==
    IF s = <<>> THEN <<>>
    ELSE IF starts_with(s, from)
    THEN to \o replace_str(drop(s, Len(from)), from, to)
    ELSE <<Head(s)>> \o replace_str(Tail(s), from, to)

NoCaptures == [matched |-> FALSE, g1 |-> <<>>, g2 |-> <<>>]

\* Regex::new(r"^\s*\((.*?)\)\s*(.*)").captures(d): `.` does not match '\n',
\* so the lazy group ends at the first ')' and fails on a line break before it.
paren_re_captures(d) ==
    LET s1 == trim_start(d)
    IN  IF s1 = <<>> \/ Head(s1) # "(" THEN NoCaptures
        ELSE LET body == Tail(s1)
                 close == find_char(body, ")")
             IN  IF close = 0 \/ contains_char(SubSeq(body, 1, close - 1), "NL")
                 THEN NoCaptures
                 ELSE [matched |-> TRUE,
                       g1 |-> SubSeq(body, 1, close - 1),
                       g2 |-> dot_star(trim_start(drop(body, close)))]

\* (pron|adj|det|n|v|adv|int|conj), in the order the alternation tries them.
PosTags ==
    << <<"p", "r", "o", "n">>, <<"a", "d", "j">>, <<"d", "e", "t">>, <<"n">>,
       <<"v">>, <<"a", "d", "v">>, <<"i", "n", "t">>, <<"c", "o", "n", "j">> >>

\* Regex::new(r"^(pron|adj|det|n|v|adv|int|conj)\.?\s*(.*)").captures(t), with
\* (?i) when case_insensitive: the first alternative that t starts with.
pos_re_captures(t, case_insensitive) ==
    LET hits == {k \in 1..Len(PosTags) :
                    IF case_insensitive THEN starts_with_i(t, PosTags[k])
                    ELSE starts_with(t, PosTags[k])}
    IN  IF hits = {} THEN NoCaptures
        ELSE LET first == CHOOSE k \in hits : \A m \in hits : k <= m
                 after == drop(t, Len(PosTags[first]))
                 after_dot == IF after # <<>> /\ Head(after) = "."
                              THEN Tail(after) ELSE after
             IN  [matched |-> TRUE,
                  g1 |-> SubSeq(t, 1, Len(PosTags[first])),
                  g2 |-> dot_star(trim_start(after_dot))]

NA == <<"N", "/", "A">>

\* .replace("your self", "yourself").replace("your selves", "yourselves")
fix_common_errors(s) ==
    replace_str(
        replace_str(s, <<"y", "o", "u", "r", "SP", "s", "e", "l", "f">>,
                       <<"y", "o", "u", "r", "s", "e", "l", "f">>),
        <<"y", "o", "u", "r", "SP", "s", "e", "l", "v", "e", "s">>,
        <<"y", "o", "u", "r", "s", "e", "l", "v", "e", "s">>)

\* translation.rs
parse_definition(d) ==
    LET caps == paren_re_captures(d)
    IN  IF caps.matched
        THEN LET pos == trim(caps.g1)
                 translation_text == trim(caps.g2)
                 caps2 == pos_re_captures(translation_text, TRUE)
             IN  IF caps2.matched
                 THEN [pos |-> caps2.g1, translation |-> trim(caps2.g2)]
                 ELSE [pos |-> pos, translation |-> translation_text]
        ELSE [pos |-> NA, translation |-> d]

\* main.rs
parse_definition_main(d) ==
    LET caps == paren_re_captures(d)
    IN  IF caps.matched
        THEN LET pos == trim(caps.g1)
                 translation_text == trim(caps.g2)
                 caps2 == pos_re_captures(translation_text, FALSE)
             IN  IF caps2.matched
                 THEN [pos |-> trim_end_matches(caps2.g1, "."),
                       translation |-> fix_common_errors(trim(caps2.g2))]
                 ELSE [pos |-> pos, translation |-> fix_common_errors(translation_text)]
        ELSE [pos |-> NA, translation |-> d]

\* The definitions parse_definition is given: "(n) your self",
\* "(pron) hello there", "v. to run fast", "(x) Adj. y", "(n) nice",
\* "( n )  x y ", "(x) your selves", and every string of at most MaxDefLen
\* of the characters '(', ')', '.', ' ', '\n', 'n', 'x'.
DefinitionInputs ==
    {<<"(", "n", ")", "SP", "y", "o", "u", "r", "SP", "s", "e", "l", "f">>,
     <<"(", "p", "r", "o", "n", ")", "SP", "h", "e", "l", "l", "o", "SP",
       "t", "h", "e", "r", "e">>,
     <<"v", ".", "SP", "t", "o", "SP", "r", "u", "n", "SP", "f", "a", "s", "t">>,
     <<"(", "x", ")", "SP", "A", "d", "j", ".", "SP", "y">>,
     <<"(", "n", ")", "SP", "n", "i", "c", "e">>,
     <<"(", "SP", "n", "SP", ")", "SP", "SP", "x", "SP", "y", "SP">>,
     <<"(", "x", ")", "SP", "y", "o", "u", "r", "SP", "s", "e", "l", "v", "e", "s">>}
        \cup UNION {[1..n -> {"(", ")", ".", "SP", "NL", "n", "x"}] :
                        n \in 0..MaxDefLen}

NoDefinition == [pos |-> <<>>, translation |-> <<>>]

DefInit ==
    /\ definition \in DefinitionInputs
    /\ defPc = "input"
    /\ defRet = NoDefinition
    /\ defRetMain = NoDefinition

DefIdle ==
    /\ definition = <<>>
    /\ defPc = "idle"
    /\ defRet = NoDefinition
    /\ defRetMain = NoDefinition


ParseDefinition ==
    /\ defPc = "input"
    /\ defPc' = "parsed"
    /\ defRet' = parse_definition(definition)
    /\ defRetMain' = parse_definition_main(definition)
    /\ UNCHANGED <<definition, htmlVars, clsVars, trVars, appVars>>

(***************************************************************************)
(* DictionaryHtmlParser: parse_longdo_html, in its two revisions.          *)
(*                                                                         *)
(* A document is the sibling chain its <b> headings and its tables are in. *)
(* The text of a heading and a class attribute are sequences of words.     *)
(***************************************************************************)
DictNectec == <<"NECTEC Lexitron Dictionary EN-TH">>
DictNontri == <<"Nontri Dictionary">>
DictHope == <<"Hope Dictionary">>

\* translation.rs: let target_dicts = vec![..]
target_dicts == <<DictNectec, DictNontri, DictHope>>

\* main.rs: let target_dicts = vec![..]
target_dicts_main == <<DictNectec, DictNontri>>

\* translation.rs looks for the "example sentences" heading, main.rs for
\* "example sentences from Open Subtitles".
ExamplesAnchor == <<"example sentences">>
ExamplesAnchorMain == <<"example sentences", "from Open Subtitles">>

ResultTable == <<"result-table">>

\* str::contains(needle)
str_contains(s, needle) ==
    \E k \in 0..(Len(s) - Len(needle)) : SubSeq(s, k + 1, k + Len(needle)) = needle

B(txt) == [tag |-> "b", text |-> txt, class |-> None, rows |-> <<>>]
Table(cls, rws) == [tag |-> "table", text |-> <<>>, class |-> cls, rows |-> rws]
OtherNode == [tag |-> "other", text |-> <<>>, class |-> None, rows |-> <<>>]

\* elem.value().name() == "table" with a class attribute containing
\* "result-table"
is_result_table(node) ==
    node.tag = "table" /\ node.class.some /\ str_contains(node.class.v, ResultTable)

\* A faulty variant of first_result_table: the class attribute is not looked at.
first_table_any_class(doc, h) ==
    IF \E k \in (h + 1)..Len(doc) : doc[k].tag = "table"
    THEN CHOOSE k \in (h + 1)..Len(doc) :
            doc[k].tag = "table" /\ \A m \in (h + 1)..(k - 1) : doc[m].tag # "table"
    ELSE 0

\* The walk over next_sibling() from the heading at h: the position of the
\* first result table after it, 0 when the chain ends without one.
first_result_table(doc, h) ==
    IF \E k \in (h + 1)..Len(doc) : is_result_table(doc[k])
    THEN CHOOSE k \in (h + 1)..Len(doc) :
            /\ is_result_table(doc[k])
            /\ \A m \in (h + 1)..(k - 1) : ~is_result_table(doc[m])
    ELSE 0

Call(dict_name, h, k) == [dict |-> dict_name, heading |-> h, table |-> k]

\* for b_element in document.select(&b_selector), for one dict_name: the
\* headings from position h on whose text contains dict_name and whose walk
\* finds a table; each is one call of parse_translation_table.
RECURSIVE heading_calls(_, _, _)
heading_calls(doc, dict_name, h) ==
    IF h > Len(doc) THEN <<>>
    ELSE (IF /\ doc[h].tag = "b"
             /\ str_contains(doc[h].text, dict_name)
             /\ first_result_table(doc, h) # 0
          THEN <<Call(dict_name, h, first_result_table(doc, h))>>
          ELSE <<>>)
            \o heading_calls(doc, dict_name, h + 1)

\* The same for one heading and every dictionary of dicts.
RECURSIVE dicts_at_heading(_, _, _)
dicts_at_heading(doc, dicts, h) ==
    IF dicts = <<>> THEN <<>>
    ELSE (IF /\ doc[h].tag = "b"
             /\ str_contains(doc[h].text, Head(dicts))
             /\ first_result_table(doc, h) # 0
          THEN <<Call(Head(dicts), h, first_result_table(doc, h))>>
          ELSE <<>>)
            \o dicts_at_heading(doc, Tail(dicts), h)

RECURSIVE calls_from(_, _, _)
calls_from(doc, dicts, h) ==
    IF h > Len(doc) THEN <<>>
    ELSE dicts_at_heading(doc, dicts, h) \o calls_from(doc, dicts, h + 1)

\* A faulty variant of table_calls: the headings are walked in the outer
\* loop, the dictionaries in the inner one.
table_calls_document_order(doc, dicts) == calls_from(doc, dicts, 1)

\* for dict_name in &target_dicts { for b_element in .. { .. } }: the calls of
\* parse_translation_table, in the order they are made.
RECURSIVE table_calls(_, _)
table_calls(doc, dicts) ==
    IF dicts = <<>> THEN <<>>
    ELSE heading_calls(doc, Head(dicts), 1) \o table_calls(doc, Tail(dicts))

TranslationItem(w, d, dict_name) ==
    [word |-> w, pos |-> parse_definition(d).pos,
     translation |-> parse_definition(d).translation, dictionary |-> dict_name]

\* main.rs: struct Translation
TranslationMain(w, d) ==
    [word |-> w, pos |-> parse_definition_main(d).pos,
     translation |-> parse_definition_main(d).translation]

\* translation.rs parse_translation_table: what the rows push.
RECURSIVE parse_translation_table(_, _)
parse_translation_table(rows, dict_name) ==
    IF rows = <<>> THEN <<>>
    ELSE LET cells == Head(rows).cells
             word == trim(cells[1])
             def == trim(cells[2])
         IN  (IF Len(cells) = 2 /\ word # <<>> /\ def # <<>>
              THEN <<TranslationItem(word, def, dict_name)>>
              ELSE <<>>)
                \o parse_translation_table(Tail(rows), dict_name)

\* main.rs parse_translation_table: every two-cell row is pushed.
RECURSIVE parse_translation_table_main(_)
parse_translation_table_main(rows) ==
    IF rows = <<>> THEN <<>>
    ELSE LET cells == Head(rows).cells
         IN  (IF Len(cells) = 2
              THEN <<TranslationMain(trim(cells[1]), trim(cells[2]))>>
              ELSE <<>>)
                \o parse_translation_table_main(Tail(rows))

ExampleItem(e, t) == [en |-> e, th |-> t]

\* A faulty variant of is_example_row: two spans or more.
is_example_row_at_least(fonts) == Len(fonts) >= 2

\* if fonts.len() == 2
is_example_row(fonts) == Len(fonts) = 2

\* translation.rs parse_example_table
RECURSIVE parse_example_table(_)
parse_example_table(rows) ==
    IF rows = <<>> THEN <<>>
    ELSE LET fonts == Head(rows).fonts
             en == trim(fonts[1])
             th == trim(fonts[2])
         IN  (IF is_example_row(fonts) /\ en # <<>> /\ th # <<>>
              THEN <<ExampleItem(en, th)>>
              ELSE <<>>)
                \o parse_example_table(Tail(rows))

\* main.rs parse_example_table
RECURSIVE parse_example_table_main(_)
parse_example_table_main(rows) ==
    IF rows = <<>> THEN <<>>
    ELSE LET fonts == Head(rows).fonts
         IN  (IF Len(fonts) = 2
              THEN <<ExampleItem(trim(fonts[1]), trim(fonts[2]))>>
              ELSE <<>>)
                \o parse_example_table_main(Tail(rows))

\* parse_examples: the table of the first heading that contains the anchor
\* and is followed by a result table; 0 when there is none.
examples_table(doc, anchor) ==
    LET hs == {h \in 1..Len(doc) :
                 /\ doc[h].tag = "b"
                 /\ str_contains(doc[h].text, anchor)
                 /\ first_result_table(doc, h) # 0}
    IN  IF hs = {} THEN 0
        ELSE first_result_table(doc, CHOOSE h \in hs : \A m \in hs : h <= m)

\* What the calls push onto data.translations, one after the other.
RECURSIVE push_translations(_, _)
push_translations(doc, calls) ==
    IF calls = <<>> THEN <<>>
    ELSE parse_translation_table(doc[Head(calls).table].rows, Head(calls).dict)
            \o push_translations(doc, Tail(calls))

RECURSIVE push_translations_main(_, _)
push_translations_main(doc, calls) ==
    IF calls = <<>> THEN <<>>
    ELSE parse_translation_table_main(doc[Head(calls).table].rows)
            \o push_translations_main(doc, Tail(calls))

\* translation.rs
parse_longdo_html(doc) ==
    [translations |-> push_translations(doc, table_calls(doc, target_dicts)),
     examples |-> IF examples_table(doc, ExamplesAnchor) = 0 THEN <<>>
                  ELSE parse_example_table(doc[examples_table(doc, ExamplesAnchor)].rows)]

\* main.rs
parse_longdo_html_main(doc) ==
    [translations |->
        push_translations_main(doc, table_calls(doc, target_dicts_main)),
     examples |-> IF examples_table(doc, ExamplesAnchorMain) = 0 THEN <<>>
                  ELSE parse_example_table_main(
                          doc[examples_table(doc, ExamplesAnchorMain)].rows)]

\* The rows of a table: the text of each <td> of the row, and the text of
\* each <font color='black'> of the row.
Row(cs, fs) == [cells |-> cs, fonts |-> fs]

DefNounX == <<"(", "n", ")", "SP", "x">>

\* Rows of a translation table, by their cells: none, one, two, three; an
\* empty or blank word, an empty or blank definition, padded cells.
CellRows ==
    {Row(cs, <<>>) : cs \in
        {<<>>, <<<<"a">>>>, <<<<"a">>, DefNounX>>, <<<<"a">>, DefNounX, <<"a">>>>,
         <<<<>>, DefNounX>>, <<<<"SP">>, DefNounX>>, <<<<"a">>, <<"NL", "SP">>>>,
         <<<<"SP", "a", "NL">>, <<"SP">> \o DefNounX \o <<"SP">>>>}}

\* Rows of an examples table, by their spans: none, one, two, three; an empty
\* or blank span, padded spans.
FontRows ==
    {Row(<<<<"a">>>>, fs) : fs \in
        {<<>>, <<<<"a">>>>, <<<<"a">>, <<"TH">>>>, <<<<"a">>, <<"TH">>, <<"a">>>>,
         <<<<"a">>, <<>>>>, <<<<"SP">>, <<"TH">>>>,
         <<<<"SP", "a", "SP">>, <<"NL", "TH">>>>}}

\* A heading followed by one table whose rows are enumerated.
RowDocuments ==
    {<<B(hd), Table(cls, rws)>> :
        hd \in {DictNectec, ExamplesAnchorMain},
        cls \in {Some(ResultTable), Some(<<"x">>)},
        rws \in UNION {[1..n -> CellRows \cup FontRows] : n \in 0..MaxRows}}

\* The nodes of the enumerated sibling chains: the headings, a table of
\* class "result-table", one of class "x result-table", one without class
\* (their rows are translation rows and example rows at once), another node.
NodeKinds ==
    {B(DictNectec), B(DictNontri), B(DictHope), B(ExamplesAnchor),
     B(ExamplesAnchorMain),
     Table(Some(ResultTable), <<Row(<<<<"a">>, DefNounX>>, <<<<"a">>, <<"TH">>>>)>>),
     Table(Some(<<"x", "result-table">>),
           <<Row(<<<<"b">>, <<"x">>>>, <<<<"b">>, <<"TH">>>>),
             Row(<<<<"c">>, <<"x">>>>, <<<<"c">>>>)>>),
     Table(None, <<Row(<<<<"d">>, <<"x">>>>, <<<<"d">>, <<"TH">>>>)>>),
     OtherNode}

Documents == UNION {[1..n -> NodeKinds] : n \in 0..MaxNodes} \cup RowDocuments

NoData == [translations |-> <<>>, examples |-> <<>>]

HtmlInit ==
    /\ html \in Documents
    /\ htmlPc = "input"
    /\ data = NoData
    /\ dataMain = NoData
    /\ tableCalls = <<>>

HtmlIdle ==
    /\ html = <<>>
    /\ htmlPc = "idle"
    /\ data = NoData
    /\ dataMain = NoData
    /\ tableCalls = <<>>

ParserIdle == DefIdle /\ HtmlIdle

ParseLongdoHtml ==
    /\ htmlPc = "input"
    /\ htmlPc' = "parsed"
    /\ data' = parse_longdo_html(html)
    /\ dataMain' = parse_longdo_html_main(html)
    /\ tableCalls' = table_calls(html, target_dicts)
    /\ UNCHANGED <<html, defVars, clsVars, trVars, appVars>>

(***************************************************************************)
(* C5.  The classification, stated on the string itself.                   *)
(***************************************************************************)
\* s = pre \o core \o post with pre = s[1..i] and post = s[j+1..] all
\* whitespace and core = s[i+1..j] empty or not starting or ending with one.
IsTrimSplit(s, i, j) ==
    /\ \A k \in 1..i : is_whitespace(s[k])
    /\ \A k \in (j + 1)..Len(s) : is_whitespace(s[k])
    /\ (i = j \/ (~is_whitespace(s[i + 1]) /\ ~is_whitespace(s[j])))

RECURSIVE BytesBetween(_, _, _)
BytesBetween(s, i, j) ==
    IF j <= i THEN 0 ELSE BytesBetween(s, i, j - 1) + Utf8Width(s[j])

\* C5 (as amended): is_single_word answers Word exactly when the string with
\* its leading and trailing whitespace removed contains no whitespace and is
\* shorter than 50 bytes of UTF-8; the copy in main.rs looks only for ' ' and
\* '\n' inside the trimmed string.
C5_WordIffTrimmedCoreShort ==
    clsPc = "classified" =>
        \E i \in 0..Len(clsText) : \E j \in i..Len(clsText) :
            /\ IsTrimSplit(clsText, i, j)
            /\ clsWord <=>
                  /\ \A k \in (i + 1)..j : ~is_whitespace(clsText[k])
                  /\ BytesBetween(clsText, i, j) < WordLimit
            /\ clsWordMain <=>
                  /\ \A k \in (i + 1)..j : clsText[k] \notin {"SP", "NL"}
                  /\ BytesBetween(clsText, i, j) < WordLimit

\* C5 (as stated): Word exactly when the string contains no whitespace and
\* its length is less than 50.
C5_WordIffNoWhitespaceShort ==
    clsPc = "classified" =>
        (clsWord <=>
            /\ \A k \in 1..Len(clsText) : ~is_whitespace(clsText[k])
            /\ Len(clsText) < WordLimit)

\* A padded 49-byte word has been classified Word.
C5_Witness ==
    /\ clsPc = "classified"
    /\ clsWord
    /\ clsText # <<>>
    /\ is_whitespace(clsText[1])
    /\ str_len(trim(clsText)) = WordLimit - 1

(***************************************************************************)
(* C1, C2, C3, C10.  The translate stage.                                  *)
(***************************************************************************)
\* The machine-translation endpoint answered JSON whose element [2] is the
\* string l.
DetectedInResponse(l) ==
    /\ googleResponse.kind = "json"
    /\ googleResponse.json.t = "arr"
    /\ Len(googleResponse.json.arr) >= 3
    /\ googleResponse.json.arr[3] = JStr(l)

\* The three gating conditions, on translate_text's inputs and on what the
\* machine-translation endpoint answered.
GateConditions ==
    /\ is_single_word(text)
    /\ DetectedInResponse(LangEn)
    /\ target = LangTh

LongdoPresent == trRet.kind = "Ok" /\ trRet.v.longdo_data.some

LongdoQueried == \E k \in 1..Len(requests) : requests[k].to = "longdo"

\* C1 (as amended): a result of translate_text carries dictionary data
\* exactly when the three gating conditions hold and the dictionary fetch
\* succeeded.
C1_LongdoIffGateAndFetched ==
    (trPc = "returned" /\ trRet.kind = "Ok") =>
        (trRet.v.longdo_data.some <=>
            (GateConditions /\ longdoResponse.kind = "html"))

\* C1 (as stated): dictionary data is present exactly when the three gating
\* conditions hold, whatever the dictionary fetch did.
C1_LongdoIffGate ==
    (trPc = "returned" /\ trRet.kind = "Ok") =>
        (trRet.v.longdo_data.some <=> GateConditions)

\* A gated lookup that returned dictionary entries.
C1_Witness ==
    /\ trPc = "returned"
    /\ GateConditions
    /\ LongdoPresent
    /\ trRet.v.longdo_data.v.translations # <<>>

\* C2: longdo_data is populated only if the text is a Word, the detected
\* source is "en" and the target is "th"; the dictionary endpoint is queried
\* only then.
C2_LongdoOnlyWhenGated ==
    /\ LongdoPresent => GateConditions
    /\ LongdoQueried => GateConditions

\* A whitespace-padded word went through the gate and came back with data.
C2_Witness ==
    /\ trPc = "returned"
    /\ text = <<"SP", "a", "NL">>
    /\ LongdoQueried
    /\ LongdoPresent

\* C3: translate_text returns a CombinedTranslationData whatever the two
\* calls did; a failed dictionary call leaves longdo_data absent.
C3_NeverFailsOutward ==
    trPc = "returned" =>
        /\ trRet.kind = "Ok"
        /\ longdoResponse.kind \in {"conn_err", "timeout", "body_err"} =>
              ~trRet.v.longdo_data.some

\* C10: the dictionary request is sent only after the machine-translation
\* call has completed successfully, and the two are never in flight together.
C10_LongdoAfterGoogle ==
    /\ ~(googleReq = "in_flight" /\ longdoReq = "in_flight")
    /\ longdoReq # "idle" =>
          /\ googleReq = "done"
          /\ DetectedInResponse(detected_source_lang)
    /\ \A k \in 1..Len(requests) :
          requests[k].to = "longdo" =>
              /\ k > 1
              /\ requests[1].to = "google"
              /\ googleReq = "done"
              /\ googleResponse.kind = "json"

\* The dictionary request is in flight, the machine translation is done.
C10_Witness ==
    /\ longdoReq = "in_flight"
    /\ googleReq = "done"
    /\ Len(requests) = 2

(***************************************************************************)
(* C11.  Timeouts of the translate stage.                                  *)
(***************************************************************************)
\* C11: every network call of the translate stage is bounded by a timeout, so
\* translate_text eventually returns, also when an endpoint accepts the
\* request and never replies.
C11_EventuallyReturns == <>(trPc = "returned")

(***************************************************************************)
(* C13.  parse_definition on the no-override path.                         *)
(***************************************************************************)
\* d starts, after whitespace, with a parenthesized group "(P)".
HasLeadingGroup(d) ==
    LET s1 == trim_start(d)
    IN  s1 # <<>> /\ Head(s1) = "(" /\ find_char(s1, ")") > 0

\* The P and the R of a definition "(P) R", without the whitespace around them.
GroupOf(d) ==
    LET s1 == trim_start(d) IN trim(SubSeq(s1, 2, find_char(s1, ")") - 1))

RemainderOf(d) ==
    LET s1 == trim_start(d) IN trim(drop(s1, find_char(s1, ")")))

\* r starts with one of the part-of-speech abbreviations, in any letter case.
MatchesInlineTag(r) == \E k \in 1..Len(PosTags) : starts_with_i(r, PosTags[k])

\* C13: a definition with no leading parenthesized group yields ("N/A", the
\* whole definition verbatim); a definition "(P) R" whose remainder R does not
\* match the inline part-of-speech pattern yields (P, R) with R unchanged.
C13_NoOverrideKeepsText ==
    defPc = "parsed" =>
        IF ~HasLeadingGroup(definition)
        THEN /\ defRet = [pos |-> NA, translation |-> definition]
             /\ defRetMain = [pos |-> NA, translation |-> definition]
        ELSE ~MatchesInlineTag(RemainderOf(definition)) =>
                /\ defRet = [pos |-> GroupOf(definition),
                             translation |-> RemainderOf(definition)]
                /\ defRetMain = [pos |-> GroupOf(definition),
                                 translation |-> RemainderOf(definition)]

(***************************************************************************)
(* C21.  Inline part-of-speech tags and word boundaries.                   *)
(***************************************************************************)
\* The first word of r: its characters up to the first whitespace or period.
RECURSIVE FirstWord(_)
FirstWord(r) ==
    IF r = <<>> \/ is_whitespace(Head(r)) \/ Head(r) = "." THEN <<>>
    ELSE <<Head(r)>> \o FirstWord(Tail(r))

\* w begins with one of the abbreviations, in any letter case, and is none of
\* them.
BeginsWithTagOnly(w) ==
    /\ \E k \in 1..Len(PosTags) : starts_with_i(w, PosTags[k])
    /\ \A k \in 1..Len(PosTags) : [i \in 1..Len(w) |-> fold(w[i])] # PosTags[k]

\* C21: an inline part-of-speech tag is recognized only as a whole token: for
\* a single-line definition "(P) R" whose remainder R starts with a word that
\* begins with an abbreviation and is not equal to one, the result is (P, R)
\* and no character of R is removed.
C21_TagIsWholeToken ==
    (/\ defPc = "parsed"
     /\ ~contains_char(definition, "NL")
     /\ HasLeadingGroup(definition)
     /\ BeginsWithTagOnly(FirstWord(RemainderOf(definition)))) =>
        /\ defRet = [pos |-> GroupOf(definition),
                     translation |-> RemainderOf(definition)]
        /\ defRetMain = [pos |-> GroupOf(definition),
                         translation |-> RemainderOf(definition)]

(***************************************************************************)
(* C12, C14, C15, C20.  The dictionary page parser.                        *)
(***************************************************************************)
\* The place of a dictionary in the priority list.
Priority(dict_name) ==
    CHOOSE k \in 1..Len(target_dicts) : target_dicts[k] = dict_name

\* The heading at h names the dictionary (or the anchor) txt.
IsHeadingOf(doc, h, txt) == doc[h].tag = "b" /\ str_contains(doc[h].text, txt)

\* k is the first result table after position h.
IsFirstResultTableAfter(doc, h, k) ==
    /\ h < k
    /\ is_result_table(doc[k])
    /\ \A m \in (h + 1)..(k - 1) : ~is_result_table(doc[m])

DictionariesOf(items) == {items[i].dictionary : i \in 1..Len(items)}

\* C12: the translations are ordered by the priority list NECTEC Lexitron,
\* Nontri, Hope: of two items the earlier has the same or a higher priority,
\* whatever the order of the headings in the markup.
C12_TranslationsInPriorityOrder ==
    htmlPc = "parsed" =>
        \A i \in 1..Len(data.translations) : \A j \in 1..Len(data.translations) :
            i < j => Priority(data.translations[i].dictionary)
                        <= Priority(data.translations[j].dictionary)

\* The Nontri heading and its table come before the NECTEC heading and its
\* table in the markup, and both dictionaries have items in the result.
C12_Witness ==
    /\ htmlPc = "parsed"
    /\ Len(html) = 4
    /\ IsHeadingOf(html, 1, DictNontri) /\ is_result_table(html[2])
    /\ IsHeadingOf(html, 3, DictNectec) /\ is_result_table(html[4])
    /\ DictionariesOf(data.translations) = {DictNectec, DictNontri}

\* The rows of the table at k are read for the examples with this anchor:
\* it is the first result table after the first heading that contains the
\* anchor and has a result table after it.
IsExamplesTable(doc, anchor, k) ==
    \E h \in 1..Len(doc) :
        /\ IsHeadingOf(doc, h, anchor)
        /\ IsFirstResultTableAfter(doc, h, k)
        /\ \A h2 \in 1..(h - 1) :
              ~(IsHeadingOf(doc, h2, anchor)
                  /\ \E k2 \in (h2 + 1)..Len(doc) : is_result_table(doc[k2]))

\* The rows with exactly two spans (both non-empty when non_empty is asked).
TwoSpanRows(rows, non_empty) ==
    {i \in 1..Len(rows) :
        /\ Len(rows[i].fonts) = 2
        /\ non_empty => (trim(rows[i].fonts[1]) # <<>> /\ trim(rows[i].fonts[2]) # <<>>)}

\* examples is one item per row of picked, in the order of the rows.
OneItemPerRow(examples, rows, picked) ==
    /\ Len(examples) = Cardinality(picked)
    /\ \A j \in 1..Len(examples) :
          LET i == CHOOSE i \in picked : Cardinality({m \in picked : m <= i}) = j
          IN  examples[j] = [en |-> trim(rows[i].fonts[1]),
                             th |-> trim(rows[i].fonts[2])]

ExamplesAreTwoSpanRows(doc, anchor, examples, non_empty) ==
    IF \E k \in 1..Len(doc) : IsExamplesTable(doc, anchor, k)
    THEN \A k \in 1..Len(doc) :
            IsExamplesTable(doc, anchor, k) =>
                OneItemPerRow(examples, doc[k].rows,
                              TwoSpanRows(doc[k].rows, non_empty))
    ELSE examples = <<>>

\* C14 (as stated): the examples are one item for each row of the anchored
\* table that has exactly two spans, in document order, and nothing else.
C14_OneExamplePerTwoSpanRow ==
    htmlPc = "parsed" =>
        /\ ExamplesAreTwoSpanRows(html, ExamplesAnchor, data.examples, FALSE)
        /\ ExamplesAreTwoSpanRows(html, ExamplesAnchorMain, dataMain.examples, FALSE)

\* C14 (as amended): the examples are one item, in document order, for each
\* row of the anchored table that has exactly two spans and, in
\* translation.rs, two non-empty trimmed texts; main.rs keeps empty texts.
C14_OneExamplePerFilledTwoSpanRow ==
    htmlPc = "parsed" =>
        /\ ExamplesAreTwoSpanRows(html, ExamplesAnchor, data.examples, TRUE)
        /\ ExamplesAreTwoSpanRows(html, ExamplesAnchorMain, dataMain.examples, FALSE)

\* A two-span row gave an example while a three-span row and a row with an
\* empty span of the same table gave none.
C14_Witness ==
    /\ htmlPc = "parsed"
    /\ Len(html) = 2
    /\ IsExamplesTable(html, ExamplesAnchor, 2)
    /\ Len(data.examples) = 1
    /\ \E i \in 1..Len(html[2].rows) : Len(html[2].rows[i].fonts) = 3

\* The item was read from a two-cell row with a non-empty trimmed word and
\* a non-empty trimmed definition.
FromFilledTwoCellRow(doc, item) ==
    \E k \in 1..Len(doc) : \E r \in 1..Len(doc[k].rows) :
        LET cells == doc[k].rows[r].cells
        IN  /\ Len(cells) = 2
            /\ trim(cells[1]) = item.word
            /\ trim(cells[1]) # <<>>
            /\ trim(cells[2]) # <<>>

\* C15: rows with an empty word or an empty definition are discarded: every
\* item of the parser's output comes from a two-cell row with a non-empty
\* trimmed word and a non-empty trimmed definition.
C15_NoEmptyRows ==
    htmlPc = "parsed" =>
        /\ \A i \in 1..Len(data.translations) :
              FromFilledTwoCellRow(html, data.translations[i])
        /\ \A i \in 1..Len(dataMain.translations) :
              FromFilledTwoCellRow(html, dataMain.translations[i])

\* The nearest heading before position k, 0 when there is none.
NearestHeading(doc, k) ==
    IF \E h \in 1..(k - 1) : doc[h].tag = "b"
    THEN CHOOSE h \in 1..(k - 1) :
            doc[h].tag = "b" /\ \A m \in (h + 1)..(k - 1) : doc[m].tag # "b"
    ELSE 0

\* C20 (as stated): each table gives its rows at most once, and only under
\* the dictionary named by the nearest heading before it.
C20_EachTableOnceUnderNearestHeading ==
    htmlPc = "parsed" =>
        /\ \A i \in 1..Len(tableCalls) : \A j \in 1..Len(tableCalls) :
              i # j => tableCalls[i].table # tableCalls[j].table
        /\ \A i \in 1..Len(tableCalls) :
              LET h == NearestHeading(html, tableCalls[i].table)
              IN  h # 0 /\ IsHeadingOf(html, h, tableCalls[i].dict)

\* C20 (as amended): each heading that names a dictionary gives, once, the
\* rows of the first result table after it in the sibling chain, under that
\* dictionary; nothing else is read.
C20_FirstTableAfterEachHeading ==
    htmlPc = "parsed" =>
        /\ \A i \in 1..Len(tableCalls) :
              /\ IsHeadingOf(html, tableCalls[i].heading, tableCalls[i].dict)
              /\ IsFirstResultTableAfter(html, tableCalls[i].heading,
                                         tableCalls[i].table)
        /\ \A i \in 1..Len(tableCalls) : \A j \in 1..Len(tableCalls) :
              i # j => <<tableCalls[i].dict, tableCalls[i].heading>>
                          # <<tableCalls[j].dict, tableCalls[j].heading>>
        /\ \A d \in {target_dicts[n] : n \in 1..Len(target_dicts)} :
              \A h \in 1..Len(html) :
                  (IsHeadingOf(html, h, d)
                      /\ \E k \in (h + 1)..Len(html) : is_result_table(html[k]))
                    => \E i \in 1..Len(tableCalls) :
                          tableCalls[i].dict = d /\ tableCalls[i].heading = h
        /\ \A n \in 1..Len(data.translations) :
              \E i \in 1..Len(tableCalls) :
                  /\ tableCalls[i].dict = data.translations[n].dictionary
                  /\ \E r \in 1..Len(html[tableCalls[i].table].rows) :
                        LET cells == html[tableCalls[i].table].rows[r].cells
                        IN  Len(cells) = 2 /\ trim(cells[1]) = data.translations[n].word

\* A heading without a table of its own is followed by the next
\* dictionary's heading and table: the table was read under both names.
C20_Witness ==
    /\ htmlPc = "parsed"
    /\ \E i \in 1..Len(tableCalls) : \E j \in 1..Len(tableCalls) :
          /\ tableCalls[i].table = tableCalls[j].table
          /\ tableCalls[i].dict # tableCalls[j].dict
    /\ Cardinality(DictionariesOf(data.translations)) >= 2

(***************************************************************************)
(* C16.  The machine-translation response.                                 *)
(***************************************************************************)
\* Every field the client reads is there and well-formed: element [0] is an
\* array whose items each start with a string, element [2] is a string.
ResponseWellFormed(resp) ==
    /\ resp.kind = "json"
    /\ resp.json.t = "arr"
    /\ Len(resp.json.arr) >= 3
    /\ resp.json.arr[1].t = "arr"
    /\ \A k \in 1..Len(resp.json.arr[1].arr) :
          LET item == resp.json.arr[1].arr[k]
          IN  item.t = "arr" /\ item.arr # <<>> /\ item.arr[1].t = "str"
    /\ resp.json.arr[3].t = "str"

\* The first elements of the items, one after the other.
RECURSIVE FirstElements(_)
FirstElements(items) ==
    IF items = <<>> THEN <<>>
    ELSE Head(items).arr[1].str \o FirstElements(Tail(items))

\* C16: the client returns the concatenation of the first element of every
\* item of [0] with [2] as the detected language, and any response in which
\* one of these fields is missing or malformed is an error, never a
\* shortened translation.
C16_MalformedIsParseError ==
    googleReq = "done" =>
        IF ResponseWellFormed(googleResponse)
        THEN /\ google_translation = FirstElements(googleResponse.json.arr[1].arr)
             /\ detected_source_lang = googleResponse.json.arr[3].str
        ELSE trPc = "returned" /\ trRet.kind = "Err"

(***************************************************************************)
(* C17.  The search word.                                                  *)
(***************************************************************************)
\* char::is_alphanumeric
is_alphanumeric(c) == c \in {"a", "TH"}

\* C17: for text classified as a single token the search word that is sent
\* to the endpoints and stored in the result begins and ends with an
\* alphanumeric character.
C17_SearchWordAlnumEnds ==
    (trPc # "start" /\ is_single_word(text) /\ trim(text) # <<>>) =>
        /\ search_word # <<>>
        /\ is_alphanumeric(search_word[1])
        /\ is_alphanumeric(search_word[Len(search_word)])
        /\ \A k \in 1..Len(requests) :
              (requests[k].q \o requests[k].search) = search_word
        /\ trRet.kind = "Ok" => trRet.v.search_word = search_word

(***************************************************************************)
(* C4, C6, C7, C8, C9.  The capture pipeline and the result channel.       *)
(***************************************************************************)
\* The capture went through the portal (main.rs always, ocr.rs off KDE).
ViaPortal == rev = "main_rs" \/ ~is_kde(desktop)

\* The capture transport reported cancellation: a Response with a non-zero
\* status code was taken, or the screenshot utility exited non-zero.
Cancelled ==
    \/ consumed > 0 /\ ~response.malformed /\ response.code # 0
    \/ spectacle.spawned /\ spectacle.code # 0

PipelineReturned == ret.kind # "pending"

\* C4: once the capture is cancelled the pipeline has ended with an error,
\* and the file was never read, OCR never called, no network request sent.
C4_NothingAfterCancel ==
    Cancelled =>
        /\ pc \in {"returned", "exit_err"}
        /\ ret.kind = "Err"
        /\ fileReads = 0
        /\ ocrCalls = 0
        /\ workers = <<>>
        /\ netCalls = <<>>

\* A cancelled capture has ended the process with the error.
C4_Witness == Cancelled /\ pc = "exit_err" /\ captureRequests = 1

\* C6: at most one translation thread is started, it sends one value, update
\* takes at most one, and a frame never waits for the channel.
C6_OneShotChannel ==
    /\ Len(workers) <= 1
    /\ sends <= 1
    /\ recvs <= sends
    /\ Len(chan) = sends - recvs
    /\ \A i \in 1..Len(workers) : workers[i].pc = "done" <=> sends = 1
    /\ translation.some <=> recvs = 1
    /\ pc = "ui" => ENABLED UpdateFrame

\* The one value was taken, and a later frame polled the empty channel.
C6_Witness ==
    /\ pc = "ui"
    /\ recvs = 1
    /\ translation.some
    /\ lastPoll = "empty"

\* C7: the portal capture takes one Response, hands over a path only for
\* status 0 with a file:// string under "uri", and fails on any other status.
C7_PathOnlyFromSuccessResponse ==
    /\ consumed <= 1
    /\ (image_path.some /\ ViaPortal) =>
          /\ consumed = 1
          /\ ~response.malformed
          /\ response.code = 0
          /\ \E kv \in response.results :
                /\ kv[1] = "uri"
                /\ kv[2].t = "str"
                /\ kv[2].str # <<>>
                /\ Head(kv[2].str) = "file://"
    /\ (consumed = 1 /\ ~response.malformed /\ response.code # 0) =>
          /\ ~image_path.some
          /\ pc \in {"returned", "exit_err"}
          /\ ret.kind = "Err"

\* The service emitted every Response it may, one was taken, a path returned.
C7_Witness ==
    /\ ViaPortal
    /\ image_path.some
    /\ emitted = MaxResponses
    /\ consumed = 1

\* C8: the capture request is issued at most once and a failed capture never
\* crashes the pipeline: capture_and_ocr returns the error.
C8_CaptureFailuresReturned ==
    /\ captureRequests <= 1
    /\ pc # "panicked"
    /\ (pc \in {"returned", "exit_err"} /\ ~image_path.some) => ret.kind = "Err"

\* C9 (as stated): after a successful capture the temporary file is gone
\* whenever the pipeline has returned.
C9_FileGoneOnReturn ==
    (PipelineReturned /\ image_path.some) => file # "exists"

\* C9 (as amended): the file is read, then its removal is attempted, then OCR
\* runs; when the pipeline has returned the file is still there only if the
\* read or the removal failed.
C9_ReadThenRemoveBeforeOcr ==
    /\ removeAttempts > 0 => (fileReads = 1 /\ readOutcome = "ok")
    /\ ocrCalls > 0 => (removeAttempts = 1 /\ removeOutcome # "none")
    /\ (PipelineReturned /\ image_path.some /\ file = "exists") =>
          (readOutcome = "err" \/ removeOutcome = "err")
    /\ (PipelineReturned /\ image_path.some /\ removeOutcome = "ok") =>
          file = "absent"

\* OCR ran on a file that had been read and removed.
C9_Witness ==
    /\ PipelineReturned
    /\ ocrCalls = 1
    /\ removeOutcome = "ok"
    /\ file = "absent"

(***************************************************************************)
(* C22.  The loading view.                                                 *)
(***************************************************************************)
\* is_translating is never true while a received translation is stored.
LoadingExcludesResult == ~(is_translating /\ translation.some)

\* The window shows the loading view.
Loading == pc = "ui" /\ is_translating

\* The value was received: the translation is set and is_translating is reset.
Received == translation.some /\ ~is_translating

\* C22: the window never gets stuck in the loading view: once a translation
\* has been started, the application eventually receives a value, sets the
\* translation and resets is_translating, unless the window is closed first;
\* and is_translating is never true while a received translation is stored.
C22_LoadingEnds ==
    /\ [](LoadingExcludesResult)
    /\ Loading ~> (Received \/ pc # "ui")

(***************************************************************************)
(* C18, C19.  The portal request/response protocol.                        *)
(***************************************************************************)
\* The phases of the portal capture: the call is being sent, AwaitingAck,
\* the subscription is being opened, AwaitingSignal.
AwaitingAck == pc = "await_ack"

AwaitingSignal == pc = "await_signal"

InPortalCapture == pc \in {"call", "await_ack", "subscribe", "await_signal"}

\* The portal capture has ended: Resolved with a path, or Failed.
PortalCaptureEnded == pc \notin {"start", "call", "await_ack", "subscribe", "await_signal"}

\* sndr is name without its leading ':' and with '_' for every '.'.
IsSanitized(sndr, name) ==
    /\ name # <<>> /\ Head(name) = ":"
    /\ Len(sndr) = Len(name) - 1
    /\ \A k \in 1..Len(sndr) :
          sndr[k] = (IF name[k + 1] = "." THEN "_" ELSE name[k + 1])
    /\ \A k \in 1..Len(sndr) : sndr[k] \notin {":", "."}

C18_PhaseInvariant ==
    /\ pc \in {"call", "await_ack", "subscribe"} =>
          (subscription = NoHandle /\ signal_stream = <<>>)
    /\ AwaitingSignal => (subscription = handle /\ portalState = "pending")
    /\ InPortalCapture =>
          /\ handle.token = token
          /\ screenshot_options(token).handle_token = handle.token
          /\ IsSanitized(handle.sender, unique_name)
    /\ (InPortalCapture /\ portalState = "pending") => portalPath = handle

C18_PhaseStep ==
    /\ pc = "call" => pc' \in {"call", "await_ack", "returned"}
    /\ AwaitingAck => pc' \in {"await_ack", "subscribe", "returned"}
    /\ pc = "subscribe" => pc' \in {"subscribe", "await_signal", "returned"}
    /\ AwaitingSignal => pc' \in {"await_signal", "read", "returned", "panicked"}
    /\ PortalCaptureEnded =>
          /\ PortalCaptureEnded'
          /\ consumed' = consumed
          /\ response' = response
          /\ captureRequests' = captureRequests

\* C18: the portal capture goes AwaitingAck -> AwaitingSignal -> Resolved or
\* Failed: the Response subscription is opened and awaited only after the
\* Screenshot call was acknowledged, Resolved and Failed are terminal, and the
\* path the Response is awaited on is built from the token passed as
\* handle_token and from the unique name without its leading ':' and with
\* '_' for '.'.
C18_TwoPhaseJoinOnToken == [](C18_PhaseInvariant) /\ [][C18_PhaseStep]_vars

\* The client waits on the path the service will emit the Response on.
C18_Witness ==
    /\ AwaitingSignal
    /\ subscription = portalPath
    /\ contains_char(handle.sender, "_")
    /\ emitted = 0

\* C19: no Response is lost: once the service has emitted the Response for
\* the request, also before the subscription is open, the capture leaves
\* the waiting state.
C19_NoResponseLost ==
    (portalState = "pending" /\ emitted > 0)
        ~> ~(pc \in {"await_ack", "subscribe", "await_signal"})


InitClassify == ClsInit /\ TrIdle /\ AppIdle /\ ParserIdle

NextClassify == Classify

SpecClassify == InitClassify /\ [][NextClassify]_vars

InitTranslate == TrInit /\ ClsIdle /\ AppIdle /\ ParserIdle

NextTranslate == TranslateStart \/ GoogleReply \/ LongdoReply

SpecTranslate == InitTranslate /\ [][NextTranslate]_vars

\* The runtime resumes translate_text whenever a reply or a timer is ready.
SpecTranslateFair == SpecTranslate /\ WF_vars(NextTranslate)

InitApp == AppInit /\ ClsIdle /\ TrIdle /\ ParserIdle

NextApp ==
    \/ StartKde
    \/ SpectacleDone
    \/ StartPortal
    \/ CallScreenshot
    \/ ScreenshotAck
    \/ Subscribe
    \/ PortalEmit
    \/ StreamEnds
    \/ TakeResponse
    \/ ReadImage
    \/ RemoveFile
    \/ RunOcr
    \/ MainAfterCapture
    \/ UpdateFrame
    \/ WorkerRequest
    \/ WorkerFinish

SpecApp == InitApp /\ [][NextApp]_vars

\* The steps of the portal capture the client takes by itself once the bus
\* has delivered what it waits for.
PortalClientSteps ==
    StartPortal \/ CallScreenshot \/ ScreenshotAck \/ Subscribe \/ TakeResponse

\* The runtime resumes the capture whenever it can go on; the desktop service
\* owes no second Response and the connection need not close.  The operating
\* system runs the translation thread, and the redraw loop, which asks for a
\* repaint after the send and in every frame of the loading view, polls a
\* channel that holds a value.  Nothing obliges the user to click or to move
\* the focus, nor an endpoint to reply.
SpecAppFair ==
    /\ SpecApp
    /\ WF_vars(PortalClientSteps)
    /\ WF_vars(WorkerRequest \/ WorkerFinish)
    /\ WF_vars(chan # <<>> /\ UpdateFrame)

InitDefinition == DefInit /\ HtmlIdle /\ ClsIdle /\ TrIdle /\ AppIdle

NextDefinition == ParseDefinition

SpecDefinition == InitDefinition /\ [][NextDefinition]_vars

InitLongdoHtml == HtmlInit /\ DefIdle /\ ClsIdle /\ TrIdle /\ AppIdle

NextLongdoHtml == ParseLongdoHtml

SpecLongdoHtml == InitLongdoHtml /\ [][NextLongdoHtml]_vars

=============================================================================
